---- MODULE Spec2Model ----
(***************************************************************************)
(* A model of gptpdf/parse.py: the rectangle geometry (_is_near,           *)
(* _is_horizontal_near, _union_rects), the fixed-point merge               *)
(* (_merge_rects), the adsorption (_adsorb_rects_to_rects), the page       *)
(* pipeline (_parse_rects) and the per-page worker pool of parse_pdf.      *)
(*                                                                         *)
(* Units.  Coordinates and distances are integers counting TENTHS of a     *)
(* PDF unit, so that the source's 0.1 is 1, its 5 is 50, its 10 is 100     *)
(* and its 20 is 200.                                                      *)
(*                                                                         *)
(* Geometry.  A rectangle is its bounds <<x0, y0, x1, y1>> with x0 <= x1   *)
(* and y0 <= y1 (shapely's box(...).bounds).  rect.buffer(0.1) grows a box *)
(* by 0.1 on every side, so the distance of two buffered boxes is          *)
(* max(0, euclidean distance - 0.2); the union's bounds are the bounding   *)
(* box of the two, taken so for a box without area (a rule line) too.  A   *)
(* box of zero width or height is not 'Valid Geometry'.                    *)
(***************************************************************************)
EXTENDS Integers, Sequences, FiniteSets, TLC

VARIABLES
    \* a call of _merge_rects and the call after it
    m, input, call, first,
    \* a call of _adsorb_rects_to_rects
    ads, targets0, into, kept,
    \* a call of _parse_rects
    pg,
    \* a call of parse_pdf: the pool, the futures and the collecting loop
    pdf, fut, result, contents, collected, mainpc, output

mergeVars == <<m, input, call, first>>

adsorbVars == <<ads, targets0, into, kept>>

pageVars == <<pg>>

pdfVars == <<pdf, fut, result, contents, collected, mainpc, output>>

vars == <<mergeVars, adsorbVars, pageVars, pdfVars>>

\* The value of the variables a specification does not use.
Idle == <<>>

MergeIdle == m = Idle /\ input = Idle /\ call = Idle /\ first = Idle

AdsorbIdle == ads = Idle /\ targets0 = Idle /\ into = Idle /\ kept = Idle

PageIdle == pg = Idle

PdfIdle ==
    /\ pdf = Idle /\ fut = Idle /\ result = Idle /\ contents = Idle
    /\ collected = Idle /\ mainpc = Idle /\ output = Idle

----------------------------------------------------------------------------
(* Geometry *)

Max(a, b) == IF a >= b THEN a ELSE b

Min(a, b) == IF a <= b THEN a ELSE b

Abs(a) == IF a >= 0 THEN a ELSE -a

\* 0.1, the buffer of _is_near, in tenths.
BUFFER == 1

\* 0.1, the tolerance of _is_horizontal_near, in tenths.
LINE_EPS == 1

\* The gap of the intervals [a0, a1] and [b0, b1]: 0 when they meet.
Gap(a0, a1, b0, b1) == Max(0, Max(b0 - a1, a0 - b1))

\* The squared euclidean distance of two boxes.
DistSq(r1, r2) ==
    LET gx == Gap(r1[1], r1[3], r2[1], r2[3])
        gy == Gap(r1[2], r1[4], r2[2], r2[4])
    IN  gx * gx + gy * gy

\* rect1.buffer(0.1).distance(rect2.buffer(0.1)) < distance
is_near(rect1, rect2, distance) ==
    /\ distance > 0
    /\ DistSq(rect1, rect2) < (distance + 2 * BUFFER) * (distance + 2 * BUFFER)

is_horizontal_near(rect1, rect2, distance) ==
    IF Abs(rect1[4] - rect1[2]) < LINE_EPS \/ Abs(rect2[4] - rect2[2]) < LINE_EPS
    THEN IF Abs(rect1[1] - rect2[1]) < LINE_EPS /\ Abs(rect1[3] - rect2[3]) < LINE_EPS
         THEN Abs(rect1[4] - rect2[4]) < distance
         ELSE FALSE
    ELSE FALSE

\* A slip: the partner is dropped without being united.
union_rects_first(rect1, rect2) == rect1

union_rects(rect1, rect2) ==
    << Min(rect1[1], rect2[1]), Min(rect1[2], rect2[2]),
       Max(rect1[3], rect2[3]), Max(rect1[4], rect2[4]) >>

\* r is inside s.
Contains(s, r) == s[1] <= r[1] /\ s[2] <= r[2] /\ r[3] <= s[3] /\ r[4] <= s[4]

\* list.remove(x): the first element equal to x goes.
RECURSIVE list_remove(_, _)
list_remove(s, x) ==
    IF s = <<>> THEN <<>>
    ELSE IF Head(s) = x THEN Tail(s)
    ELSE <<Head(s)>> \o list_remove(Tail(s), x)

----------------------------------------------------------------------------
(* _merge_rects, one step of its control flow at a time.  The state of a   *)
(* call is a record: pc is the position in the code, it is the index the   *)
(* list iterator of 'for other_rect in rect_list' reads next (the list is  *)
(* mutated under the iterator, which keeps counting), and                  *)
(* horizontal_distance = 0 stands for None (both are falsy).               *)

NoRect == <<>>

\* The call's entry: merged = True (line 69).
MergeEntry(rect_list, distance, horizontal_distance) ==
    [ pc |-> "while", rect_list |-> rect_list, new_rect_list |-> <<>>,
      rect |-> NoRect, it |-> 1, merged |-> TRUE,
      distance |-> distance, horizontal_distance |-> horizontal_distance ]

\* A slip: merged is never reset.
MergeWhileNoReset(s) ==
    IF s.merged
    THEN [s EXCEPT !.new_rect_list = <<>>, !.pc = "inner"]
    ELSE [s EXCEPT !.pc = "done"]

\* while merged: merged = False; new_rect_list = []  /  return rect_list
MergeWhile(s) ==
    IF s.merged
    THEN [s EXCEPT !.merged = FALSE, !.new_rect_list = <<>>, !.pc = "inner"]
    ELSE [s EXCEPT !.pc = "done"]

\* while rect_list: rect = rect_list.pop(0); the for loop's iterator starts
MergePop(s) ==
    [s EXCEPT !.rect = Head(s.rect_list), !.rect_list = Tail(s.rect_list),
              !.it = 1, !.pc = "for"]

\* rect_list is empty: rect_list = new_rect_list, back to 'while merged'
MergePassEnd(s) ==
    [s EXCEPT !.rect_list = s.new_rect_list, !.pc = "while"]

\* The iterator has an element to give.
MergeHasNext(s) == s.it <= Len(s.rect_list)

\* The condition of line 76-77.
MergeCond(rect, other_rect, distance, horizontal_distance) ==
    \/ is_near(rect, other_rect, distance)
    \/ /\ horizontal_distance # 0
       /\ is_horizontal_near(rect, other_rect, horizontal_distance)

\* The condition on the element the iterator gives.
MergeHit(s) ==
    MergeCond(s.rect, s.rect_list[s.it], s.distance, s.horizontal_distance)

\* A slip: merged is not set, so one pass is all there is.
MergeUnionNoFlag(s) ==
    LET other_rect == s.rect_list[s.it]
    IN  [s EXCEPT !.rect = union_rects(s.rect, other_rect),
                  !.rect_list = list_remove(s.rect_list, other_rect),
                  !.it = s.it + 1]

\* rect = _union_rects(rect, other_rect); rect_list.remove(other_rect);
\* merged = True; the iterator moves on by one all the same.
MergeUnion(s) ==
    LET other_rect == s.rect_list[s.it]
    IN  [s EXCEPT !.rect = union_rects(s.rect, other_rect),
                  !.rect_list = list_remove(s.rect_list, other_rect),
                  !.merged = TRUE, !.it = s.it + 1]

\* The condition is false: the iterator moves on.
MergeSkip(s) == [s EXCEPT !.it = s.it + 1]

\* The iterator is exhausted: the for loop ends.
MergeForEnd(s) == [s EXCEPT !.pc = "emit"]

\* new_rect_list.append(rect)
MergeEmit(s) ==
    [s EXCEPT !.new_rect_list = Append(s.new_rect_list, s.rect),
              !.rect = NoRect, !.pc = "inner"]

MergeStep(s) ==
    CASE s.pc = "while" -> MergeWhile(s)
      [] s.pc = "inner" -> IF s.rect_list # <<>> THEN MergePop(s) ELSE MergePassEnd(s)
      [] s.pc = "for"   -> IF MergeHasNext(s)
                           THEN IF MergeHit(s) THEN MergeUnion(s) ELSE MergeSkip(s)
                           ELSE MergeForEnd(s)
      [] s.pc = "emit"  -> MergeEmit(s)
      [] OTHER          -> s

RECURSIVE MergeRun(_)
MergeRun(s) == IF s.pc = "done" THEN s.rect_list ELSE MergeRun(MergeStep(s))

\* The whole call.
merge_rects(rect_list, distance, horizontal_distance) ==
    MergeRun(MergeEntry(rect_list, distance, horizontal_distance))

----------------------------------------------------------------------------
(* _adsorb_rects_to_rects, one step of its control flow at a time.  si is  *)
(* the place of text_area_rect in source_rects, ti the index enumerate()   *)
(* gives next.                                                             *)

\* new_source_rects = [] (line 93)
AdsorbEntry(source_rects, target_rects, distance) ==
    [ pc |-> "outer", source_rects |-> source_rects, target_rects |-> target_rects,
      new_source_rects |-> <<>>, si |-> 0, ti |-> 1, adsorbed |-> FALSE,
      distance |-> distance ]

\* for text_area_rect in source_rects: adsorbed = False  /  return
AdsorbOuter(s) ==
    IF s.si < Len(s.source_rects)
    THEN [s EXCEPT !.si = s.si + 1, !.adsorbed = FALSE, !.ti = 1, !.pc = "inner"]
    ELSE [s EXCEPT !.pc = "done"]

\* enumerate(target_rects) has a target to give.
AdsorbHasNext(s) == s.ti <= Len(s.target_rects)

\* if _is_near(text_area_rect, rect, distance)
AdsorbHit(s) == is_near(s.source_rects[s.si], s.target_rects[s.ti], s.distance)

\* A slip: the loop over the targets goes on after a match.
AdsorbUnionNoBreak(s) ==
    [s EXCEPT !.target_rects[s.ti] =
                  union_rects(s.source_rects[s.si], s.target_rects[s.ti]),
              !.adsorbed = TRUE, !.ti = s.ti + 1]

\* A slip: the target is replaced by the source instead of their union.
AdsorbUnionReplace(s) ==
    [s EXCEPT !.target_rects[s.ti] = s.source_rects[s.si],
              !.adsorbed = TRUE, !.pc = "after"]

\* rect = _union_rects(text_area_rect, rect); target_rects[index] = rect;
\* adsorbed = True; break
AdsorbUnion(s) ==
    [s EXCEPT !.target_rects[s.ti] =
                  union_rects(s.source_rects[s.si], s.target_rects[s.ti]),
              !.adsorbed = TRUE, !.pc = "after"]

\* The target is not near: the next one.
AdsorbSkip(s) == [s EXCEPT !.ti = s.ti + 1]

\* No target is left.
AdsorbInnerEnd(s) == [s EXCEPT !.pc = "after"]

\* if not adsorbed: new_source_rects.append(text_area_rect)
AdsorbAfter(s) ==
    IF ~s.adsorbed
    THEN [s EXCEPT !.new_source_rects = Append(s.new_source_rects, s.source_rects[s.si]),
                   !.pc = "outer"]
    ELSE [s EXCEPT !.pc = "outer"]

AdsorbStep(s) ==
    CASE s.pc = "outer" -> AdsorbOuter(s)
      [] s.pc = "inner" -> IF AdsorbHasNext(s)
                           THEN IF AdsorbHit(s) THEN AdsorbUnion(s) ELSE AdsorbSkip(s)
                           ELSE AdsorbInnerEnd(s)
      [] s.pc = "after" -> AdsorbAfter(s)
      [] OTHER          -> s

RECURSIVE AdsorbRun(_)
AdsorbRun(s) == IF s.pc = "done" THEN s ELSE AdsorbRun(AdsorbStep(s))

\* The whole call: <<new_source_rects, target_rects>>.
adsorb_rects_to_rects(source_rects, target_rects, distance) ==
    LET s == AdsorbRun(AdsorbEntry(source_rects, target_rects, distance))
    IN  <<s.new_source_rects, s.target_rects>>

----------------------------------------------------------------------------
(* _parse_rects, one statement at a time.  A drawing or an image is its    *)
(* rectangle; a text block of page.get_text('blocks') is its rectangle,    *)
(* len(x[4]) as chars and len(x[4].split('\n')) as lines.                  *)

\* Lines 117, 130, 134, 137, 138, 141 and 144, in tenths.
SHORT_HEIGHT == 10
SHORT_WIDTH == 300
PAGE_DISTANCE == 100
PAGE_HORIZONTAL_DISTANCE == 1000
LARGE_RATIO == 5
LARGE_DISTANCE == 1
SMALL_DISTANCE == 50
AGAIN_DISTANCE == 100
MIN_SIZE == 200

Range(s) == { s[i] : i \in 1..Len(s) }

is_short_line(rect) ==
    Abs(rect[4] - rect[2]) < SHORT_HEIGHT /\ Abs(rect[3] - rect[1]) < SHORT_WIDTH

\* explain_validity(rect) == 'Valid Geometry'
is_valid(rect) == rect[1] < rect[3] /\ rect[2] < rect[4]

\* (len(x[4]) / max(1, len(x[4].split('\n')))) > 5
is_large_content(x) == x.chars > LARGE_RATIO * Max(1, x.lines)

\* A slip: >= for >.
big_enough_inclusive(rect) ==
    rect[3] - rect[1] >= MIN_SIZE /\ rect[4] - rect[2] >= MIN_SIZE

\* rect.bounds[2] - rect.bounds[0] > 20 and rect.bounds[3] - rect.bounds[1] > 20
big_enough(rect) ==
    rect[3] - rect[1] > MIN_SIZE /\ rect[4] - rect[2] > MIN_SIZE

PageEntry(drawings, images, blocks) ==
    [ pc |-> "drawings", drawings |-> drawings, images |-> images, blocks |-> blocks,
      rect_list |-> <<>>, merged_rects |-> <<>>, merged1 |-> <<>>,
      unmatched_large |-> <<>>, unmatched_small |-> <<>>,
      adsorbed_rects |-> <<>>, merged2 |-> <<>>, out |-> <<>> ]

\* Lines 114-121: the drawings that are no short line, as boxes.
PageDrawings(s) ==
    LET keep(d) == ~is_short_line(d)
    IN  [s EXCEPT !.rect_list = SelectSeq(s.drawings, keep), !.pc = "images"]

\* Lines 124-128: rect_list += image_rects
PageImages(s) ==
    [s EXCEPT !.rect_list = s.rect_list \o s.images, !.pc = "merge"]

\* Line 130; merged1 remembers what the merge returned.
PageMerge(s) ==
    LET r == merge_rects(s.rect_list, PAGE_DISTANCE, PAGE_HORIZONTAL_DISTANCE)
    IN  [s EXCEPT !.merged_rects = r, !.merged1 = r, !.pc = "valid"]

\* Line 131
PageValid(s) ==
    [s EXCEPT !.merged_rects = SelectSeq(s.merged_rects, is_valid), !.pc = "large"]

BlockRects(blocks) == [i \in 1..Len(blocks) |-> blocks[i].rect]

\* Lines 134-137: the large text areas; the unmatched ones go to '_'.
PageAdsorbLarge(s) ==
    LET large == BlockRects(SelectSeq(s.blocks, is_large_content))
        r == adsorb_rects_to_rects(large, s.merged_rects, LARGE_DISTANCE)
    IN  [s EXCEPT !.unmatched_large = r[1], !.merged_rects = r[2], !.pc = "small"]

\* Lines 135, 138: the small text areas; the unmatched ones go to '_'.
PageAdsorbSmall(s) ==
    LET is_small(x) == ~is_large_content(x)
        small == BlockRects(SelectSeq(s.blocks, is_small))
        r == adsorb_rects_to_rects(small, s.merged_rects, SMALL_DISTANCE)
    IN  [s EXCEPT !.unmatched_small = r[1], !.merged_rects = r[2],
                  !.adsorbed_rects = r[2], !.pc = "again"]

\* A slip: the second merge is left out.
PageMergeAgainSkipped(s) ==
    [s EXCEPT !.merged2 = s.merged_rects, !.pc = "filter"]

\* Line 141; merged2 remembers what the merge returned.
PageMergeAgain(s) ==
    LET r == merge_rects(s.merged_rects, AGAIN_DISTANCE, 0)
    IN  [s EXCEPT !.merged_rects = r, !.merged2 = r, !.pc = "filter"]

\* Line 144
PageFilter(s) ==
    [s EXCEPT !.merged_rects = SelectSeq(s.merged_rects, big_enough), !.pc = "return"]

\* Line 146
PageReturn(s) == [s EXCEPT !.out = s.merged_rects, !.pc = "done"]

----------------------------------------------------------------------------
(* parse_pdf: _process_page, _remove_markdown_backticks and the collecting *)
(* loop.  OpenAI(...) and open(page_image) (lines 229-236, outside the     *)
(* try) are taken to succeed; what varies is the answer of the call.       *)
(* A string is a sequence of tokens, "BACKTICKS" for three                 *)
(* backticks, "NL" for a newline and "NLNL" for two; a Python value is     *)
(* <<"str", tokens>> or <<"None">>.                                        *)

None == <<"None">>

Str(tokens) == <<"str", tokens>>

\* str(index) for the page numbers of the model.
PageNo(i) == <<"0", "1", "2", "3", "4", "5", "6", "7", "8", "9">>[i + 1]

\* What the vision model's call can do for a page: raise; answer with no
\* choices; answer with a choice that has no message; answer with text;
\* answer with text in a ```markdown fence; answer with content None.
Responses == {"raise", "empty", "no_message", "text", "fenced", "none"}

\* _process_page(index, image_info) when the call does as `response` says:
\* the (index, content) it returns.
process_page(index, response) ==
    CASE response = "raise" ->
             <<index, Str(<<"Error processing page ", PageNo(index + 1), ": ", "APIError">>)>>
      [] response = "empty" ->
             <<index, Str(<<"Error: Empty choices in API response for page ", PageNo(index + 1)>>)>>
      [] response = "no_message" ->
             <<index, Str(<<"Error processing page ", PageNo(index + 1), ": ", "AttributeError">>)>>
      [] response = "text" ->
             <<index, Str(<<"text of page ", PageNo(index)>>)>>
      [] response = "fenced" ->
             <<index, Str(<<"BACKTICKS", "markdown", "NL", "text of page ", PageNo(index), "NL", "BACKTICKS">>)>>
      [] response = "none" ->
             <<index, None>>

\* '```markdown' in content
HasMarkdownFence(c) ==
    \E i \in 1..(Len(c) - 1) : c[i] = "BACKTICKS" /\ c[i + 1] = "markdown"

\* content.replace('```markdown\n', '')
RECURSIVE ReplaceFence(_)
ReplaceFence(c) ==
    IF c = <<>> THEN <<>>
    ELSE IF Len(c) >= 3 /\ SubSeq(c, 1, 3) = <<"BACKTICKS", "markdown", "NL">>
         THEN ReplaceFence(SubSeq(c, 4, Len(c)))
         ELSE <<Head(c)>> \o ReplaceFence(Tail(c))

\* content.rfind('```'): the place of the last one, 0 for -1.
RFind(c) ==
    LET at == { i \in 1..Len(c) : c[i] = "BACKTICKS" }
    IN  IF at = {} THEN 0 ELSE CHOOSE i \in at : \A j \in at : j <= i

remove_markdown_backticks(c) ==
    IF HasMarkdownFence(c)
    THEN LET r == ReplaceFence(c)
             k == RFind(r)
         IN  IF k # 0 THEN SubSeq(r, 1, k - 1) \o SubSeq(r, k + 1, Len(r)) ELSE r
    ELSE c

\* '\n\n'.join(contents) of contents[from..n-1]
RECURSIVE JoinFrom(_, _, _)
JoinFrom(c, from, n) ==
    IF from >= n THEN <<>>
    ELSE IF from = n - 1 THEN c[from][2]
    ELSE c[from][2] \o <<"NLNL">> \o JoinFrom(c, from + 1, n)

\* A slip: contents.append(content), the order of completion.
StoreAppended(c, index, content) == [c EXCEPT ![Len(collected)] = Str(content)]

\* contents[index] = content
Store(c, index, content) == [c EXCEPT ![index] = Str(content)]

----------------------------------------------------------------------------
(* SpecMerge: _merge_rects on a bounded input, then once more on its own   *)
(* result with the same thresholds.                                        *)

\* The longest input list.
MaxLen == 5

\* (0,0,10,10), (12,0,22,10), (24,0,34,10): a chain with gaps of 2 units;
\* and the rule line (0,40,10,40) under the first.
RectA == <<0, 0, 100, 100>>
RectC == <<120, 0, 220, 100>>
RectD == <<240, 0, 340, 100>>
RectL == <<0, 400, 100, 400>>

MergeCands == {RectA, RectC, RectD, RectL}

RectLists(Cands, n) == UNION { [1..k -> Cands] : k \in 0..n }

\* distance = 1, 5; horizontal_distance = None, 100.
MergeDistances == {10, 50}
MergeHDistances == {0, 1000}

InitMerge ==
    \E R \in RectLists(MergeCands, MaxLen), d \in MergeDistances, h \in MergeHDistances :
        /\ input = [rect_list |-> R, distance |-> d, horizontal_distance |-> h]
        /\ m = MergeEntry(R, d, h)
        /\ call = 1
        /\ first = <<>>
        /\ AdsorbIdle /\ PageIdle /\ PdfIdle

DoWhile ==
    /\ m.pc = "while"
    /\ m' = MergeWhile(m)
    /\ UNCHANGED <<input, call, first, adsorbVars, pageVars, pdfVars>>

DoPop ==
    /\ m.pc = "inner" /\ m.rect_list # <<>>
    /\ m' = MergePop(m)
    /\ UNCHANGED <<input, call, first, adsorbVars, pageVars, pdfVars>>

DoPassEnd ==
    /\ m.pc = "inner" /\ m.rect_list = <<>>
    /\ m' = MergePassEnd(m)
    /\ UNCHANGED <<input, call, first, adsorbVars, pageVars, pdfVars>>

DoUnion ==
    /\ m.pc = "for" /\ MergeHasNext(m) /\ MergeHit(m)
    /\ m' = MergeUnion(m)
    /\ UNCHANGED <<input, call, first, adsorbVars, pageVars, pdfVars>>

DoSkip ==
    /\ m.pc = "for" /\ MergeHasNext(m) /\ ~MergeHit(m)
    /\ m' = MergeSkip(m)
    /\ UNCHANGED <<input, call, first, adsorbVars, pageVars, pdfVars>>

DoForEnd ==
    /\ m.pc = "for" /\ ~MergeHasNext(m)
    /\ m' = MergeForEnd(m)
    /\ UNCHANGED <<input, call, first, adsorbVars, pageVars, pdfVars>>

DoEmit ==
    /\ m.pc = "emit"
    /\ m' = MergeEmit(m)
    /\ UNCHANGED <<input, call, first, adsorbVars, pageVars, pdfVars>>

\* The first call has returned: call it again on what it returned.
DoAgain ==
    /\ m.pc = "done" /\ call = 1
    /\ first' = m.rect_list
    /\ call' = 2
    /\ m' = MergeEntry(m.rect_list, m.distance, m.horizontal_distance)
    /\ UNCHANGED <<input, adsorbVars, pageVars, pdfVars>>

NextMerge ==
    \/ DoWhile \/ DoPop \/ DoPassEnd \/ DoUnion \/ DoSkip \/ DoForEnd
    \/ DoEmit \/ DoAgain

SpecMerge == InitMerge /\ [][NextMerge]_vars

FairMerge == SpecMerge /\ WF_vars(NextMerge)

----------------------------------------------------------------------------
(* Claims about _merge_rects *)

\* C4: merge is idempotent at its fixed point: the second call, on the
\* result of the first and with the same thresholds, performs no merge
\* (merged is never set again after the entry) and returns the same list,
\* same rectangles in the same order.
C4_MergeIdempotent ==
    call = 2 =>
        /\ m.merged => m = MergeEntry(first, input.distance, input.horizontal_distance)
        /\ m.pc = "done" => m.rect_list = first

\* The second call has returned, on a first result of two or more
\* rectangles that the first call had to merge for.
C4_Witness ==
    /\ call = 2 /\ m.pc = "done"
    /\ Len(first) >= 2
    /\ Len(first) < Len(input.rect_list)

\* C5: the returned list is no longer than the input, and every input
\* rectangle is inside some returned rectangle.
C5_MergeCovers ==
    (call = 1 /\ m.pc = "done") =>
        /\ Len(m.rect_list) <= Len(input.rect_list)
        /\ \A i \in 1..Len(input.rect_list) :
              \E j \in 1..Len(m.rect_list) :
                  Contains(m.rect_list[j], input.rect_list[i])

\* The first call has returned on an input where list.remove found its
\* partner by value at another place: scanning from (0,0,10,10), the first
\* (24,0,34,10) is not near, (12,0,22,10) merges, the rule line is stepped
\* over, the last (24,0,34,10) is near now and remove() takes the first.
C5_Witness ==
    /\ call = 1 /\ m.pc = "done"
    /\ input.rect_list = <<RectA, RectD, RectC, RectL, RectD>>
    /\ input.distance = 50
    /\ Len(m.rect_list) = 2

\* The rectangles of a call: the current list, the next pass's list and
\* the one in hand.
MergeTotal(s) ==
    Len(s.rect_list) + Len(s.new_rect_list) + (IF s.rect = NoRect THEN 0 ELSE 1)

\* C7: every merge takes exactly one rectangle out of the call (the list,
\* the next pass's list and the rectangle in hand together), and both calls
\* return.
C7_MergeTerminates ==
    /\ [][(m.pc = "for" /\ MergeHasNext(m) /\ MergeHit(m))
             => MergeTotal(m') = MergeTotal(m) - 1]_vars
    /\ <>(call = 2 /\ m.pc = "done")

\* The first call has returned after two merges or more.
C7_Witness ==
    /\ call = 1 /\ m.pc = "done"
    /\ Len(m.rect_list) + 2 <= Len(input.rect_list)

\* C10: when a rectangle is emitted into the next pass's list, no rectangle
\* left in the current pass's list satisfies the merge condition with it.
C10_EmitLeavesNoPartner ==
    m.pc = "emit" =>
        \A k \in 1..Len(m.rect_list) :
            ~MergeCond(m.rect, m.rect_list[k], m.distance, m.horizontal_distance)

----------------------------------------------------------------------------
(* SpecAdsorb: _adsorb_rects_to_rects on bounded inputs.  into[i] lists    *)
(* the targets source i was united into and kept[i] counts its appends to  *)
(* new_source_rects: a history of the call, not state of the program.      *)

\* The longest source list and the longest target list.
MaxSources == 3
MaxTargets == 2

\* Targets: (0,0,30,30) and (42,0,72,30), 12 units apart.
BoxP == <<0, 0, 300, 300>>
BoxQ == <<420, 0, 720, 300>>

\* Sources: between the targets, 2 units from each; inside the first;
\* touching the first and overlapping the second; far from both.
TextMid == <<320, 0, 400, 300>>
TextIn == <<100, 100, 200, 200>>
TextOver == <<300, 0, 500, 300>>
TextFar == <<0, 2000, 400, 2400>>

AdsorbSources == {TextMid, TextIn, TextOver, TextFar}
AdsorbTargets == {BoxP, BoxQ}

\* distance = 0.1, 5
AdsorbDistances == {1, 50}

InitAdsorb ==
    \E S \in RectLists(AdsorbSources, MaxSources),
       T \in RectLists(AdsorbTargets, MaxTargets),
       d \in AdsorbDistances :
        /\ ads = AdsorbEntry(S, T, d)
        /\ targets0 = T
        /\ into = [i \in 1..Len(S) |-> <<>>]
        /\ kept = [i \in 1..Len(S) |-> 0]
        /\ MergeIdle /\ PageIdle /\ PdfIdle

AdsorbDoOuter ==
    /\ ads.pc = "outer"
    /\ ads' = AdsorbOuter(ads)
    /\ UNCHANGED <<targets0, into, kept, mergeVars, pageVars, pdfVars>>

AdsorbDoUnion ==
    /\ ads.pc = "inner" /\ AdsorbHasNext(ads) /\ AdsorbHit(ads)
    /\ ads' = AdsorbUnion(ads)
    /\ into' = [into EXCEPT ![ads.si] = Append(@, ads.ti)]
    /\ UNCHANGED <<targets0, kept, mergeVars, pageVars, pdfVars>>

AdsorbDoSkip ==
    /\ ads.pc = "inner" /\ AdsorbHasNext(ads) /\ ~AdsorbHit(ads)
    /\ ads' = AdsorbSkip(ads)
    /\ UNCHANGED <<targets0, into, kept, mergeVars, pageVars, pdfVars>>

AdsorbDoInnerEnd ==
    /\ ads.pc = "inner" /\ ~AdsorbHasNext(ads)
    /\ ads' = AdsorbInnerEnd(ads)
    /\ UNCHANGED <<targets0, into, kept, mergeVars, pageVars, pdfVars>>

AdsorbDoAfter ==
    /\ ads.pc = "after"
    /\ ads' = AdsorbAfter(ads)
    /\ kept' = [kept EXCEPT ![ads.si] =
                   @ + Len(ads'.new_source_rects) - Len(ads.new_source_rects)]
    /\ UNCHANGED <<targets0, into, mergeVars, pageVars, pdfVars>>

NextAdsorb ==
    \/ AdsorbDoOuter \/ AdsorbDoUnion \/ AdsorbDoSkip \/ AdsorbDoInnerEnd
    \/ AdsorbDoAfter

SpecAdsorb == InitAdsorb /\ [][NextAdsorb]_vars

\* The sources that were kept, in order.
RECURSIVE KeptSources(_, _, _)
KeptSources(S, k, i) ==
    IF i > Len(S) THEN <<>>
    ELSE (IF k[i] = 1 THEN <<S[i]>> ELSE <<>>) \o KeptSources(S, k, i + 1)

\* C6: adsorb conserves rectangles.  When the call returns, every source
\* was either united into exactly one target (which contains it) or
\* appended exactly once to the unmatched output, never both; the unmatched
\* output is exactly the kept sources in order; the targets are as many as
\* before and each contains the target it was.
C6_AdsorbConserves ==
    ads.pc = "done" =>
        /\ \A i \in 1..Len(ads.source_rects) :
              /\ Len(into[i]) + kept[i] = 1
              /\ \A k \in 1..Len(into[i]) :
                    Contains(ads.target_rects[into[i][k]], ads.source_rects[i])
        /\ ads.new_source_rects = KeptSources(ads.source_rects, kept, 1)
        /\ Len(ads.target_rects) = Len(targets0)
        /\ \A j \in 1..Len(targets0) : Contains(ads.target_rects[j], targets0[j])

\* The call has returned with a source kept, a source united, and a source
\* that was near two targets.
C6_Witness ==
    /\ ads.pc = "done"
    /\ \E i \in 1..Len(ads.source_rects) : kept[i] = 1
    /\ \E i \in 1..Len(ads.source_rects) :
          /\ Len(into[i]) = 1
          /\ Cardinality({j \in 1..Len(targets0) :
                 is_near(ads.source_rects[i], targets0[j], ads.distance)}) = 2

----------------------------------------------------------------------------
(* SpecPage: _parse_rects on a bounded page. *)

\* The most drawings, images and text blocks of a page.
MaxDrawings == 2
MaxImages == 1
MaxBlocks == 2

\* Drawings beside the boxes (0,0,30,30) and (42,0,72,30): a rule of
\* 25 x 0.5 units, a 10 x 10 dot, a box exactly 20 units wide, and a rule
\* line of 30 units under the first box.
ShortLine == <<500, 500, 750, 505>>
Dot == <<800, 800, 900, 900>>
Thin == <<0, 600, 200, 900>>
RuleLine == <<0, 1000, 300, 1000>>

PageDrawingCands == {BoxP, BoxQ, ShortLine, Dot, Thin, RuleLine}

\* An image of 30 x 30 units far below the boxes.
Img == <<0, 1200, 300, 1500>>

PageImageCands == {Img}

\* Text blocks: prose over both boxes, a label between them, prose far from
\* everything, and a label inside the first box with exactly 5 characters a
\* line.
PageBlockCands ==
    { [rect |-> TextOver, chars |-> 40, lines |-> 2],
      [rect |-> TextMid, chars |-> 3, lines |-> 1],
      [rect |-> TextFar, chars |-> 60, lines |-> 3],
      [rect |-> TextIn, chars |-> 10, lines |-> 2] }

InitPage ==
    \E D \in RectLists(PageDrawingCands, MaxDrawings),
       I \in RectLists(PageImageCands, MaxImages),
       B \in RectLists(PageBlockCands, MaxBlocks) :
        /\ pg = PageEntry(D, I, B)
        /\ MergeIdle /\ AdsorbIdle /\ PdfIdle

DoDrawings ==
    /\ pg.pc = "drawings"
    /\ pg' = PageDrawings(pg)
    /\ UNCHANGED <<mergeVars, adsorbVars, pdfVars>>

DoImages ==
    /\ pg.pc = "images"
    /\ pg' = PageImages(pg)
    /\ UNCHANGED <<mergeVars, adsorbVars, pdfVars>>

DoMerge ==
    /\ pg.pc = "merge"
    /\ pg' = PageMerge(pg)
    /\ UNCHANGED <<mergeVars, adsorbVars, pdfVars>>

DoValid ==
    /\ pg.pc = "valid"
    /\ pg' = PageValid(pg)
    /\ UNCHANGED <<mergeVars, adsorbVars, pdfVars>>

DoAdsorbLarge ==
    /\ pg.pc = "large"
    /\ pg' = PageAdsorbLarge(pg)
    /\ UNCHANGED <<mergeVars, adsorbVars, pdfVars>>

DoAdsorbSmall ==
    /\ pg.pc = "small"
    /\ pg' = PageAdsorbSmall(pg)
    /\ UNCHANGED <<mergeVars, adsorbVars, pdfVars>>

DoMergeAgain ==
    /\ pg.pc = "again"
    /\ pg' = PageMergeAgain(pg)
    /\ UNCHANGED <<mergeVars, adsorbVars, pdfVars>>

DoFilter ==
    /\ pg.pc = "filter"
    /\ pg' = PageFilter(pg)
    /\ UNCHANGED <<mergeVars, adsorbVars, pdfVars>>

DoPageReturn ==
    /\ pg.pc = "return"
    /\ pg' = PageReturn(pg)
    /\ UNCHANGED <<mergeVars, adsorbVars, pdfVars>>

NextPage ==
    \/ DoDrawings \/ DoImages \/ DoMerge \/ DoValid \/ DoAdsorbLarge
    \/ DoAdsorbSmall \/ DoMergeAgain \/ DoFilter \/ DoPageReturn

SpecPage == InitPage /\ [][NextPage]_vars

\* The primitive is inside a returned region.
Covered(rect) == \E j \in 1..Len(pg.out) : Contains(pg.out[j], rect)

\* The primitive was in a region the invalid-geometry filter removed.
InvalidRemoved(rect) ==
    \E j \in 1..Len(pg.merged1) :
        ~is_valid(pg.merged1[j]) /\ Contains(pg.merged1[j], rect)

\* The primitive was in a region the size filter removed.
SizeRemoved(rect) ==
    \E j \in 1..Len(pg.merged2) :
        ~big_enough(pg.merged2[j]) /\ Contains(pg.merged2[j], rect)

Accounted(rect) == Covered(rect) \/ InvalidRemoved(rect) \/ SizeRemoved(rect)

\* The text block went to the '_' of its adsorb call.
Unadsorbed(x) ==
    IF is_large_content(x)
    THEN x.rect \in Range(pg.unmatched_large)
    ELSE x.rect \in Range(pg.unmatched_small)

\* C1 as stated: every drawing, image and text block is inside a returned
\* region unless the short-line filter, the invalid-geometry filter or the
\* size filter removed it.
C1_NoPrimitiveVanishes ==
    pg.pc = "done" =>
        /\ \A i \in 1..Len(pg.drawings) :
              is_short_line(pg.drawings[i]) \/ Accounted(pg.drawings[i])
        /\ \A i \in 1..Len(pg.images) : Accounted(pg.images[i])
        /\ \A i \in 1..Len(pg.blocks) : Accounted(pg.blocks[i].rect)

\* C1 amended: the same for every drawing, every image and every text block
\* that a region adsorbed; a text block that no region adsorbs is dropped.
C1_NoAdsorbedPrimitiveVanishes ==
    pg.pc = "done" =>
        /\ \A i \in 1..Len(pg.drawings) :
              is_short_line(pg.drawings[i]) \/ Accounted(pg.drawings[i])
        /\ \A i \in 1..Len(pg.images) : Accounted(pg.images[i])
        /\ \A i \in 1..Len(pg.blocks) :
              Unadsorbed(pg.blocks[i]) \/ Accounted(pg.blocks[i].rect)

\* The page is done: a drawing is inside a returned region, a text block
\* was adsorbed and is inside one, and another text block was adsorbed by
\* nothing and is inside none.
C1_Witness ==
    /\ pg.pc = "done"
    /\ \E i \in 1..Len(pg.drawings) : Covered(pg.drawings[i])
    /\ \E i \in 1..Len(pg.blocks) :
          ~Unadsorbed(pg.blocks[i]) /\ Covered(pg.blocks[i].rect)
    /\ \E i \in 1..Len(pg.blocks) :
          Unadsorbed(pg.blocks[i]) /\ ~Accounted(pg.blocks[i].rect)

\* The boxes share a point.
Overlap(r1, r2) ==
    r1[1] <= r2[3] /\ r2[1] <= r1[3] /\ r1[2] <= r2[4] /\ r2[2] <= r1[4]

\* C8: no two returned regions intersect; any two are at a buffered
\* distance of 10 units or more.
C8_RegionsApart ==
    pg.pc = "done" =>
        \A i, j \in 1..Len(pg.out) :
            i < j => /\ ~Overlap(pg.out[i], pg.out[j])
                     /\ ~is_near(pg.out[i], pg.out[j], AGAIN_DISTANCE)

\* The page is done with two regions or more, after an adsorption that
\* made two regions overlap and the second merge that united them.
C8_Witness ==
    /\ pg.pc = "done"
    /\ Len(pg.out) >= 2
    /\ Len(pg.merged2) < Len(pg.adsorbed_rects)
    /\ \E i, j \in 1..Len(pg.adsorbed_rects) :
          i < j /\ Overlap(pg.adsorbed_rects[i], pg.adsorbed_rects[j])

\* s is t with some elements left out, the order kept.
RECURSIVE IsSubseq(_, _)
IsSubseq(s, t) ==
    IF s = <<>> THEN TRUE
    ELSE IF t = <<>> THEN FALSE
    ELSE IF Head(s) = Head(t) THEN IsSubseq(Tail(s), Tail(t))
    ELSE IsSubseq(s, Tail(t))

\* C9: every returned rectangle is more than 20 units wide and more than
\* 20 units high, and the returned rectangles are in the order the final
\* merge produced.
C9_OutputBigAndOrdered ==
    pg.pc = "done" =>
        /\ \A j \in 1..Len(pg.out) :
              /\ pg.out[j][3] - pg.out[j][1] > MIN_SIZE
              /\ pg.out[j][4] - pg.out[j][2] > MIN_SIZE
        /\ IsSubseq(pg.out, pg.merged2)

\* The page is done with two regions or more, and the final merge had
\* produced a region exactly 20 units wide, which is not returned.
C9_Witness ==
    /\ pg.pc = "done"
    /\ Len(pg.out) >= 2
    /\ \E j \in 1..Len(pg.merged2) :
          /\ pg.merged2[j][3] - pg.merged2[j][1] = MIN_SIZE
          /\ pg.merged2[j][4] - pg.merged2[j][2] > MIN_SIZE
          /\ pg.merged2[j] \notin Range(pg.out)

----------------------------------------------------------------------------
(* SpecPdf: parse_pdf from line 261 on.  The executor has the futures of   *)
(* pages 0..n-1 in its queue; at most gpt_worker run at a time; the main   *)
(* thread takes finished futures from as_completed in any order.           *)
(* collected is the order in which it took them.                           *)

\* The most pages and the largest pool.
MaxPages == 3
MaxWorkers == 2

Pages == 0..(pdf.n - 1)

InitPdf ==
    \E n \in 0..MaxPages, w \in 1..MaxWorkers :
        /\ pdf = [n |-> n, gpt_worker |-> w]
        /\ fut = [i \in 0..(n - 1) |-> "pending"]
        /\ result = [i \in 0..(n - 1) |-> <<>>]
        /\ contents = [i \in 0..(n - 1) |-> None]
        /\ collected = <<>>
        /\ mainpc = "collect"
        /\ output = None
        /\ MergeIdle /\ AdsorbIdle /\ PageIdle

\* A free worker takes the first future of the queue.
TaskStart(i) ==
    /\ fut[i] = "pending"
    /\ \A j \in Pages : j < i => fut[j] # "pending"
    /\ Cardinality({j \in Pages : fut[j] = "running"}) < pdf.gpt_worker
    /\ fut' = [fut EXCEPT ![i] = "running"]
    /\ UNCHANGED <<pdf, result, contents, collected, mainpc, output,
                   mergeVars, adsorbVars, pageVars>>

\* _process_page returns.
TaskReturn(i) ==
    /\ fut[i] = "running"
    /\ \E response \in Responses : result' = [result EXCEPT ![i] = process_page(i, response)]
    /\ fut' = [fut EXCEPT ![i] = "finished"]
    /\ UNCHANGED <<pdf, contents, collected, mainpc, output,
                   mergeVars, adsorbVars, pageVars>>

\* Lines 265-267 on a future whose content is a string.
Collect(i) ==
    /\ mainpc = "collect"
    /\ fut[i] = "finished" /\ i \notin Range(collected)
    /\ result[i][2] # None
    /\ contents' = Store(contents, result[i][1], remove_markdown_backticks(result[i][2][2]))
    /\ collected' = Append(collected, i)
    /\ UNCHANGED <<pdf, fut, result, mainpc, output, mergeVars, adsorbVars, pageVars>>

\* Lines 265-266 on a future whose content is None: '```markdown' in None
\* raises TypeError in the main thread.
CollectRaise(i) ==
    /\ mainpc = "collect"
    /\ fut[i] = "finished" /\ i \notin Range(collected)
    /\ result[i][2] = None
    /\ mainpc' = "raised"
    /\ UNCHANGED <<pdf, fut, result, contents, collected, output,
                   mergeVars, adsorbVars, pageVars>>

\* Every future was taken: line 271.
Join ==
    /\ mainpc = "collect"
    /\ Len(collected) = pdf.n
    /\ output' = Str(JoinFrom(contents, 0, pdf.n))
    /\ mainpc' = "done"
    /\ UNCHANGED <<pdf, fut, result, contents, collected, mergeVars, adsorbVars, pageVars>>

\* The with block is left on the exception: the executor waits for its
\* futures, then the exception leaves parse_pdf.
Abort ==
    /\ mainpc = "raised"
    /\ \A i \in Pages : fut[i] = "finished"
    /\ mainpc' = "aborted"
    /\ UNCHANGED <<pdf, fut, result, contents, collected, output,
                   mergeVars, adsorbVars, pageVars>>

NextPdf ==
    \/ \E i \in Pages : TaskStart(i)
    \/ \E i \in Pages : TaskReturn(i)
    \/ \E i \in Pages : Collect(i)
    \/ \E i \in Pages : CollectRaise(i)
    \/ Join
    \/ Abort

SpecPdf == InitPdf /\ [][NextPdf]_vars

\* C2: when the output is assembled it holds one entry per page, and the
\* entry at position i is what page i's task returned (with its markdown
\* fence removed), whatever the order in which the tasks were taken.
C2_OutputInPageOrder ==
    mainpc = "done" =>
        /\ DOMAIN contents = Pages
        /\ \A i \in Pages :
              /\ result[i][1] = i
              /\ contents[i] = Str(remove_markdown_backticks(result[i][2][2]))
        /\ output = Str(JoinFrom(contents, 0, pdf.n))

\* The output is assembled from three pages taken in another order than
\* the page order, one of them answered in a markdown fence.
C2_Witness ==
    /\ mainpc = "done"
    /\ pdf.n = 3
    /\ collected = <<1, 2, 0>>
    /\ \E i \in Pages : result[i] = process_page(i, "fenced")

\* C3: every task that ended returned a string (the model's text or an
\* inline error), and no response aborts the batch.
C3_NoResponseAbortsBatch ==
    /\ \A i \in Pages : fut[i] = "finished" => result[i][2] # None
    /\ mainpc \notin {"raised", "aborted"}

====
